---- MODULE Spec2Model ----
(***************************************************************************)
(* Occupancy decision engine of Park_it.                                   *)
(*                                                                         *)
(*   server/opencv_service/yolo_detector.py       YOLODetector             *)
(*   server/opencv_service/parking_lot_tracker.py ParkingLotTracker        *)
(*   Tested/Tested/test22.py                      ParkingDetector,         *)
(*                                                SlotDrawer               *)
(*                                                                         *)
(* Python floats are carried as exact rationals [n |-> numerator,          *)
(* d |-> denominator] with d > 0, so that intersection/union, the          *)
(* normalised coordinates and the thresholds are compared exactly.         *)
(* Python's None is the empty tuple <<>> and a present value v is <<v>>.   *)
(***************************************************************************)
EXTENDS Integers, Sequences, FiniteSets, TLC

VARIABLES
  pc,                 \* position of the call being modelled
  box1, box2,         \* calculate_iou: the two arguments
  iou_ret,            \* calculate_iou: the returned value
  cls,                \* check_slot_occupancy: the class whose method is called
  slot_polygon,       \* check_slot_occupancy: the polygon argument
  vehicle_boxes,      \* check_slot_occupancy: the vehicle list argument
  occupied_threshold, \* YOLODetector.occupied_threshold
  check_ret,          \* check_slot_occupancy: the returned tuple
  strategy,           \* detect_occupancy: "yolo" (YOLODetector) or "tracker" (ParkingLotTracker)
  threshold_val,      \* ParkingLotTracker.threshold_val
  image,              \* detect_occupancy: what image_path holds
  slots,              \* detect_occupancy: the slots argument
  vehicles,           \* detect_occupancy: the list detect_vehicles returned
  img_width,          \* detect_occupancy: img.shape[1]
  img_height,         \* detect_occupancy: img.shape[0]
  i,                  \* detect_occupancy: index of the next slot of the loop
  results,            \* detect_occupancy: the results list
  origin,             \* for each entry of results, the index of the slot it was made for
  crop,               \* ParkingLotTracker: x, y, w, h and the crop of the last slot, if it got there
  outcome,            \* how the last loop iteration ended
  slot_num,           \* detect_occupancy: the local slot_num, unbound until first assigned
  last_pixel_coords,  \* detect_occupancy: the local pixel_coords as the last slot left it
  model_path,         \* what the model file holds: "ok", "missing" or "unloadable"
  slots_file,         \* ParkingDetector: <<>> when the file is missing, else <<the stored polygons>>
  video,              \* ParkingDetector: "ok", "missing" or "unopenable"
  self_slots,         \* ParkingDetector.slots
  frame_count,        \* ParkingDetector.frame_count
  total_slots,        \* ParkingDetector.total_slots
  occupied_slots,     \* ParkingDetector.occupied_slots
  frame_boxes,        \* ParkingDetector.run: car_boxes of the frame being processed
  free_slots,         \* draw_statistics: free_slots
  occupancy_rate,     \* draw_statistics: occupancy_rate
  reads,              \* number of frames handed to the model so far
  points,             \* SlotDrawer.points
  drawn_slots,        \* SlotDrawer.slots
  scale_factor,       \* SlotDrawer.scale_factor
  events,             \* SlotDrawer: the last two events handled, oldest first
  snapshots           \* SlotDrawer: points and slots as they were before each of those events

iouVars == <<box1, box2, iou_ret>>

checkVars == <<cls, slot_polygon, vehicle_boxes, check_ret>>

detectVars == <<strategy, threshold_val, image, slots, vehicles, img_width,
                img_height, i, results, origin, crop, outcome, slot_num, last_pixel_coords>>

runVars == <<model_path, slots_file, video, self_slots, frame_count, total_slots,
             occupied_slots, frame_boxes, free_slots, occupancy_rate, reads>>

drawVars == <<points, drawn_slots, scale_factor, events, snapshots>>

vars == <<pc, iouVars, checkVars, occupied_threshold, detectVars, runVars, drawVars>>

---------------------------------------------------------------------------
\* Bounds of the model.

\* Box corners of the calculate_iou calls range over 0..MaxCoord.
MaxCoord == 2

\* Longest vehicle list handed to check_slot_occupancy / found in a frame.
MaxVehicles == 2

\* Longest slot list handed to detect_occupancy.
MaxSlots == 2

\* Foreground pixel counts of a crop range over 0..MaxCount and the full crop.
MaxCount == 2

\* Frames ParkingDetector.run processes, and frames a constructed
\* YOLODetector is handed, before the model stops.
MaxFrames == 2

\* Slots SlotDrawer completes before the drawing stops.
MaxDrawn == 2

---------------------------------------------------------------------------
\* Exact arithmetic standing for Python's float arithmetic.

R(k) == [n |-> k, d |-> 1]

Abs(k) == IF k < 0 THEN -k ELSE k

RECURSIVE GCD(_, _)
GCD(a, b) == IF b = 0 THEN a ELSE GCD(b, a % b)

\* a / b for b # 0, in lowest terms with a positive denominator.
Frac(a, b) ==
  LET g == GCD(Abs(a), Abs(b))
  IN  IF b < 0 THEN [n |-> (-a) \div g, d |-> (-b) \div g]
      ELSE [n |-> a \div g, d |-> b \div g]

RLt(a, b) == a.n * b.d < b.n * a.d

RLe(a, b) == a.n * b.d <= b.n * a.d

REq(a, b) == a.n * b.d = b.n * a.d

RSub(a, b) == Frac(a.n * b.d - b.n * a.d, a.d * b.d)

RAdd(a, b) == Frac(a.n * b.d + b.n * a.d, a.d * b.d)

RMul(a, b) == Frac(a.n * b.n, a.d * b.d)

\* a / b for b # 0
RDiv(a, b) == Frac(a.n * b.d, a.d * b.n)

\* int(a): truncation toward zero.
RTrunc(a) == IF a.n >= 0 THEN a.n \div a.d ELSE -((-a.n) \div a.d)

\* Python's max(a, b) and min(a, b): the first argument on a tie.
RMax(a, b) == IF RLt(a, b) THEN b ELSE a

RMin(a, b) == IF RLt(b, a) THEN b ELSE a

RZero == R(0)

ROne == R(1)

\* A box [x_min, y_min, x_max, y_max] of integers as a box of floats.
RBox(b) == [k \in 1..4 |-> R(b[k])]

---------------------------------------------------------------------------
\* YOLODetector.calculate_iou / ParkingDetector.calculate_iou (same body).

\* The early return for a pair that does not overlap is missing.
calculate_iou_no_early_return(b1, b2) ==
  LET inter_x_min == RMax(b1[1], b2[1])
      inter_y_min == RMax(b1[2], b2[2])
      inter_x_max == RMin(b1[3], b2[3])
      inter_y_max == RMin(b1[4], b2[4])
      inter_area  == RMul(RSub(inter_x_max, inter_x_min), RSub(inter_y_max, inter_y_min))
      box1_area   == RMul(RSub(b1[3], b1[1]), RSub(b1[4], b1[2]))
      box2_area   == RMul(RSub(b2[3], b2[1]), RSub(b2[4], b2[2]))
      union_area  == RSub(RAdd(box1_area, box2_area), inter_area)
  IN  IF RLt(RZero, union_area) THEN RDiv(inter_area, union_area) ELSE RZero

\* The union forgets to subtract the intersection.
calculate_iou_union_is_sum(b1, b2) ==
  LET inter_x_min == RMax(b1[1], b2[1])
      inter_y_min == RMax(b1[2], b2[2])
      inter_x_max == RMin(b1[3], b2[3])
      inter_y_max == RMin(b1[4], b2[4])
  IN  IF RLt(inter_x_max, inter_x_min) \/ RLt(inter_y_max, inter_y_min)
      THEN RZero
      ELSE LET inter_area == RMul(RSub(inter_x_max, inter_x_min), RSub(inter_y_max, inter_y_min))
               box1_area  == RMul(RSub(b1[3], b1[1]), RSub(b1[4], b1[2]))
               box2_area  == RMul(RSub(b2[3], b2[1]), RSub(b2[4], b2[2]))
               union_area == RAdd(box1_area, box2_area)
           IN  IF RLt(RZero, union_area) THEN RDiv(inter_area, union_area) ELSE RZero

\* The left edge of the intersection is taken from box1 alone.
calculate_iou_left_edge_of_box1(b1, b2) ==
  LET inter_x_min == b1[1]
      inter_y_min == RMax(b1[2], b2[2])
      inter_x_max == RMin(b1[3], b2[3])
      inter_y_max == RMin(b1[4], b2[4])
  IN  IF RLt(inter_x_max, inter_x_min) \/ RLt(inter_y_max, inter_y_min)
      THEN RZero
      ELSE LET inter_area == RMul(RSub(inter_x_max, inter_x_min), RSub(inter_y_max, inter_y_min))
               box1_area  == RMul(RSub(b1[3], b1[1]), RSub(b1[4], b1[2]))
               box2_area  == RMul(RSub(b2[3], b2[1]), RSub(b2[4], b2[2]))
               union_area == RSub(RAdd(box1_area, box2_area), inter_area)
           IN  IF RLt(RZero, union_area) THEN RDiv(inter_area, union_area) ELSE RZero

\* The union test is `>= 0` and a zero union is divided by.
calculate_iou_identical_is_one(b1, b2) ==
  LET inter_x_min == RMax(b1[1], b2[1])
      inter_y_min == RMax(b1[2], b2[2])
      inter_x_max == RMin(b1[3], b2[3])
      inter_y_max == RMin(b1[4], b2[4])
  IN  IF RLt(inter_x_max, inter_x_min) \/ RLt(inter_y_max, inter_y_min)
      THEN RZero
      ELSE LET inter_area == RMul(RSub(inter_x_max, inter_x_min), RSub(inter_y_max, inter_y_min))
               box1_area  == RMul(RSub(b1[3], b1[1]), RSub(b1[4], b1[2]))
               box2_area  == RMul(RSub(b2[3], b2[1]), RSub(b2[4], b2[2]))
               union_area == RSub(RAdd(box1_area, box2_area), inter_area)
           IN  IF RLt(RZero, union_area) THEN RDiv(inter_area, union_area) ELSE ROne

calculate_iou(b1, b2) ==
  LET inter_x_min == RMax(b1[1], b2[1])
      inter_y_min == RMax(b1[2], b2[2])
      inter_x_max == RMin(b1[3], b2[3])
      inter_y_max == RMin(b1[4], b2[4])
  IN  IF RLt(inter_x_max, inter_x_min) \/ RLt(inter_y_max, inter_y_min)
      THEN RZero
      ELSE LET inter_area == RMul(RSub(inter_x_max, inter_x_min), RSub(inter_y_max, inter_y_min))
               box1_area  == RMul(RSub(b1[3], b1[1]), RSub(b1[4], b1[2]))
               box2_area  == RMul(RSub(b2[3], b2[1]), RSub(b2[4], b2[2]))
               union_area == RSub(RAdd(box1_area, box2_area), inter_area)
           IN  IF RLt(RZero, union_area) THEN RDiv(inter_area, union_area) ELSE RZero

---------------------------------------------------------------------------
\* Calls of calculate_iou on every pair of boxes of the bounded domain.

BoxCoords == 0..MaxCoord

\* The boxes of Scenarios A, B and C of the specification.
ScenarioBoxes == {<<0, 0, 10, 10>>, <<20, 20, 30, 30>>, <<5, 5, 15, 15>>}

\* Every 4-tuple of corners: boxes of zero area and boxes whose min edge
\* exceeds their max edge are included.
IouBoxes == (BoxCoords \X BoxCoords \X BoxCoords \X BoxCoords) \cup ScenarioBoxes

\* The local slot_num before its first assignment.
Unbound == [bound |-> FALSE, v |-> <<>>]

IdleRun ==
  /\ model_path = "none"
  /\ slots_file = <<>>
  /\ video = "none"
  /\ self_slots = <<>>
  /\ frame_count = 0
  /\ total_slots = 0
  /\ occupied_slots = 0
  /\ frame_boxes = <<>>
  /\ free_slots = 0
  /\ occupancy_rate = [n |-> 0, d |-> 1]
  /\ reads = 0

IdleDraw ==
  /\ points = <<>>
  /\ drawn_slots = <<>>
  /\ scale_factor = 0
  /\ events = <<>>
  /\ snapshots = <<>>

IdleDetect ==
  /\ slot_num = Unbound
  /\ last_pixel_coords = <<>>
  /\ strategy = "none"
  /\ threshold_val = RZero
  /\ image = <<>>
  /\ slots = <<>>
  /\ vehicles = <<>>
  /\ img_width = 0
  /\ img_height = 0
  /\ i = 0
  /\ results = <<>>
  /\ origin = <<>>
  /\ crop = <<>>
  /\ outcome = "none"

NoBox == <<>>

NoRet == <<>>

IdleCheck0 ==
  /\ cls = "none"
  /\ slot_polygon = <<>>
  /\ vehicle_boxes = <<>>
  /\ check_ret = NoRet

IdleCheck ==
  /\ IdleCheck0
  /\ occupied_threshold = RZero

InitIoU ==
  /\ pc = "iou_call"
  /\ box1 \in IouBoxes
  /\ box2 \in IouBoxes
  /\ iou_ret = NoRet
  /\ IdleCheck
  /\ IdleDetect
  /\ IdleRun
  /\ IdleDraw

CalculateIou ==
  /\ pc = "iou_call"
  /\ iou_ret' = <<calculate_iou(RBox(box1), RBox(box2))>>
  /\ pc' = "iou_done"
  /\ UNCHANGED <<runVars, drawVars, box1, box2, checkVars, occupied_threshold, detectVars>>

NextIoU == CalculateIou

SpecIoU == InitIoU /\ [][NextIoU]_vars

---------------------------------------------------------------------------
\* YOLODetector.polygon_to_bbox / ParkingDetector.polygon_to_bbox:
\* np.array(polygon).min(axis=0) and .max(axis=0) of a non-empty polygon.

RECURSIVE ColumnMin(_, _, _)
ColumnMin(polygon, axis, k) ==
  IF k = Len(polygon) THEN polygon[k][axis]
  ELSE RMin(polygon[k][axis], ColumnMin(polygon, axis, k + 1))

RECURSIVE ColumnMax(_, _, _)
ColumnMax(polygon, axis, k) ==
  IF k = Len(polygon) THEN polygon[k][axis]
  ELSE RMax(polygon[k][axis], ColumnMax(polygon, axis, k + 1))

polygon_to_bbox(polygon) ==
  <<ColumnMin(polygon, 1, 1), ColumnMin(polygon, 2, 1),
    ColumnMax(polygon, 1, 1), ColumnMax(polygon, 2, 1)>>

\* The reduction of an empty array raises ValueError.
polygon_to_bbox_raises(polygon) == Len(polygon) = 0

---------------------------------------------------------------------------
\* YOLODetector.check_slot_occupancy

\* The loop over vehicle_boxes, from vehicle k on, carrying max_iou and
\* matched_vehicle.
RECURSIVE check_loop(_, _, _, _, _)
check_loop(slot_bbox, vs, k, max_iou, matched_vehicle) ==
  IF k > Len(vs) THEN [max_iou |-> max_iou, matched_vehicle |-> matched_vehicle]
  ELSE LET iou == calculate_iou(slot_bbox, RBox(vs[k].bbox))
       IN  IF RLt(max_iou, iou)
           THEN check_loop(slot_bbox, vs, k + 1, iou, <<vs[k]>>)
           ELSE check_loop(slot_bbox, vs, k + 1, max_iou, matched_vehicle)

\* The threshold test is `>` instead of `>=`.
check_slot_occupancy_strict(polygon, vs, threshold) ==
  LET slot_bbox == polygon_to_bbox(polygon)
      end       == check_loop(slot_bbox, vs, 1, RZero, <<>>)
  IN  [is_occupied     |-> RLt(threshold, end.max_iou),
       max_iou         |-> end.max_iou,
       matched_vehicle |-> end.matched_vehicle]

check_slot_occupancy(polygon, vs, threshold) ==
  LET slot_bbox == polygon_to_bbox(polygon)
      end       == check_loop(slot_bbox, vs, 1, RZero, <<>>)
  IN  [is_occupied     |-> RLe(threshold, end.max_iou),
       max_iou         |-> end.max_iou,
       matched_vehicle |-> end.matched_vehicle]

---------------------------------------------------------------------------
\* ParkingDetector.check_slot_occupancy (test22.py)

OCCUPIED_THRESHOLD == Frac(30, 100)

RECURSIVE parking_check_loop(_, _, _, _)
parking_check_loop(slot_bbox, car_boxes, k, max_iou) ==
  IF k > Len(car_boxes) THEN max_iou
  ELSE parking_check_loop(slot_bbox, car_boxes, k + 1,
                          RMax(max_iou, calculate_iou(slot_bbox, RBox(car_boxes[k]))))

parking_check_slot_occupancy(polygon, car_boxes) ==
  RLe(OCCUPIED_THRESHOLD,
      parking_check_loop(polygon_to_bbox(polygon), car_boxes, 1, RZero))

---------------------------------------------------------------------------
\* Calls of check_slot_occupancy on bounded polygons, vehicle lists and
\* thresholds.

Pt(x, y) == <<R(x), R(y)>>

\* Corners a triangle of the domain is drawn from.
PolygonCorners == {Pt(0, 0), Pt(10, 0), Pt(10, 10), Pt(0, 10)}

\* The slot polygon of Scenarios A, B and C.
ScenarioPolygon == <<Pt(0, 0), Pt(10, 0), Pt(10, 10), Pt(0, 10)>>

CheckPolygons ==
  {<<a, b, c>> : a \in PolygonCorners, b \in PolygonCorners, c \in PolygonCorners}
  \cup {ScenarioPolygon,
        <<Pt(5, 5), Pt(15, 7), Pt(13, 15), Pt(3, 13)>>,
        <<Pt(20, 20), Pt(30, 20), Pt(30, 30), Pt(20, 30)>>}

Vehicle(b, conf) == [bbox |-> b, confidence |-> conf, class |-> "car"]

\* What detect_vehicles can return for a frame, one entry per detected car.
VehiclePool ==
  {Vehicle(<<0, 0, 10, 10>>, Frac(9, 10)),
   Vehicle(<<20, 20, 30, 30>>, Frac(8, 10)),
   Vehicle(<<5, 5, 15, 15>>, Frac(5, 10)),
   Vehicle(<<0, 0, 5, 10>>, Frac(6, 10))}

SeqsUpTo(S, len) == UNION {[1..k -> S] : k \in 0..len}

VehicleLists == SeqsUpTo(VehiclePool, MaxVehicles)

\* Values occupied_threshold can be constructed with: __init__ takes any
\* float and checks nothing.
OccupiedThresholds == {Frac(-1, 10), RZero, Frac(1, 10), Frac(30, 100), ROne}

IdleIoU ==
  /\ box1 = NoBox
  /\ box2 = NoBox
  /\ iou_ret = NoRet

InitCheck ==
  /\ pc = "check_call"
  /\ cls \in {"YOLODetector", "ParkingDetector"}
  /\ slot_polygon \in CheckPolygons
  /\ vehicle_boxes \in VehicleLists
  /\ occupied_threshold \in IF cls = "YOLODetector" THEN OccupiedThresholds
                            ELSE {OCCUPIED_THRESHOLD}
  /\ check_ret = NoRet
  /\ IdleIoU
  /\ IdleDetect
  /\ IdleRun
  /\ IdleDraw

YoloCheckSlotOccupancy ==
  /\ pc = "check_call"
  /\ cls = "YOLODetector"
  /\ check_ret' = <<check_slot_occupancy(slot_polygon, vehicle_boxes, occupied_threshold)>>
  /\ pc' = "check_done"
  /\ UNCHANGED <<runVars, drawVars, iouVars, cls, slot_polygon, vehicle_boxes, occupied_threshold, detectVars>>

ParkingCheckSlotOccupancy ==
  /\ pc = "check_call"
  /\ cls = "ParkingDetector"
  /\ check_ret' = <<[is_occupied |->
                       parking_check_slot_occupancy(slot_polygon,
                         [k \in 1..Len(vehicle_boxes) |-> vehicle_boxes[k].bbox])]>>
  /\ pc' = "check_done"
  /\ UNCHANGED <<runVars, drawVars, iouVars, cls, slot_polygon, vehicle_boxes, occupied_threshold, detectVars>>

NextCheck == YoloCheckSlotOccupancy \/ ParkingCheckSlotOccupancy

SpecCheck == InitCheck /\ [][NextCheck]_vars

---------------------------------------------------------------------------
\* Slot records (Python dicts) and their coordinate entries.
\* A key that is absent, or holds None, is <<>>; a key holding v is <<v>>.

\* `a or b`: a when a is truthy (neither None nor 0), else b.
Truthy(a) == a # <<>> /\ a[1] # 0

PyOr(a, b) == IF Truthy(a) THEN a ELSE b

\* A coordinate entry: a list / tuple [v1, v2, ...], a dict with optional
\* "x" and "y", or a value of another type.
ListCoord(vs) == [t |-> "list", v |-> vs, x |-> <<>>, y |-> <<>>]

DictCoord(cx, cy) == [t |-> "dict", v |-> <<>>, x |-> cx, y |-> cy]

OtherCoord == [t |-> "other", v |-> <<>>, x |-> <<>>, y |-> <<>>]

\* slot.get('coordinates', [])
slot_coordinates(slot) == IF slot.coordinates = <<>> THEN <<>> ELSE slot.coordinates[1]

\* slot.get('slot_id') or slot.get('slotId')
slot_id_of(slot) == PyOr(slot.slot_id, slot.slotId)

\* slot.get('slot_number') or slot.get('slotNumber')
slot_num_of(slot) == PyOr(slot.slot_number, slot.slotNumber)

\* The width of the frame, whatever the slot records.
s_width_of_frame(slot, iw) == iw

\* slot.get('image_width') or slot.get('imageWidth') or img_width
s_width_of(slot, iw) == PyOr(PyOr(slot.image_width, slot.imageWidth), <<iw>>)[1]

\* slot.get('image_height') or slot.get('imageHeight') or img_height
s_height_of(slot, ih) == PyOr(PyOr(slot.image_height, slot.imageHeight), <<ih>>)[1]

\* An entry of neither dict nor list / tuple type is passed over (`continue`).
coord_skipped(c) == c.t = "other"

\* coord[0] / coord[1] of a list shorter than 2 raises IndexError.
coord_raises(c) == c.t = "list" /\ Len(c.v) < 2

\* coord.get('x', 0) or coord[0]
x_norm_of(c) == IF c.t = "dict" THEN (IF c.x = <<>> THEN RZero ELSE c.x[1]) ELSE c.v[1]

\* coord.get('y', 0) or coord[1]
y_norm_of(c) == IF c.t = "dict" THEN (IF c.y = <<>> THEN RZero ELSE c.y[1]) ELSE c.v[2]

usable_coords(coordinates) == SelectSeq(coordinates, LAMBDA c : ~coord_skipped(c))

some_coord_raises(coordinates) ==
  \E k \in 1..Len(coordinates) : coord_raises(coordinates[k])

\* The entries the loop over coordinates handled before one of them raised.
coords_before_raise(coordinates) ==
  LET k == CHOOSE m \in 1..Len(coordinates) :
             /\ coord_raises(coordinates[m])
             /\ \A j \in 1..(m - 1) : ~coord_raises(coordinates[j])
  IN  SubSeq(coordinates, 1, k - 1)

\* slot.get(...) of a record that is not a mapping raises AttributeError.
slot_get_raises(slot) == ~slot.is_dict

---------------------------------------------------------------------------
\* YOLODetector.detect_occupancy: the body of one loop iteration.

\* [float(x_norm * s_width), float(y_norm * s_height)] per usable entry
yolo_pixel_coords(coordinates, s_width, s_height) ==
  LET usable == usable_coords(coordinates)
  IN  [k \in 1..Len(usable) |->
         <<RMul(x_norm_of(usable[k]), R(s_width)),
           RMul(y_norm_of(usable[k]), R(s_height))>>]

yolo_result(slot, chk) ==
  [slot_id          |-> slot_id_of(slot),
   slot_number      |-> slot_num_of(slot),
   status           |-> IF chk.is_occupied THEN "occupied" ELSE "vacant",
   confidence       |-> ROne,
   occupancy_ratio  |-> chk.max_iou,
   detection_method |-> "yolo",
   vehicle_metadata |->
     IF chk.is_occupied /\ chk.matched_vehicle # <<>>
     THEN <<[bounding_box |-> chk.matched_vehicle[1].bbox,
             confidence   |-> chk.matched_vehicle[1].confidence,
             iou          |-> chk.max_iou]>>
     ELSE <<>>]

\* kind: "no_coordinates" (the `continue` of line 217), "error" (the except
\* clause) or "result" (results.append).  pixel_coords is <<>> when the
\* iteration ended before `pixel_coords = []`, else <<the list as it was left>>.
yolo_slot(slot, vs, threshold, iw, ih) ==
  IF slot_get_raises(slot) THEN [kind |-> "error", pixel_coords |-> <<>>]
  ELSE
  LET coordinates == slot_coordinates(slot)
      s_width     == s_width_of(slot, iw)
      s_height    == s_height_of(slot, ih)
  IN  IF Len(coordinates) = 0 THEN [kind |-> "no_coordinates", pixel_coords |-> <<>>]
      ELSE IF some_coord_raises(coordinates)
      THEN [kind |-> "error",
            pixel_coords |-> <<yolo_pixel_coords(coords_before_raise(coordinates),
                                                 s_width, s_height)>>]
      ELSE LET pcs == yolo_pixel_coords(coordinates, s_width, s_height)
           IN  IF polygon_to_bbox_raises(pcs)
               THEN [kind |-> "error", pixel_coords |-> <<pcs>>]
               ELSE [kind         |-> "result",
                     pixel_coords |-> <<pcs>>,
                     result       |-> yolo_result(slot,
                                        check_slot_occupancy(pcs, vs, threshold))]

\* Line 273: the except clause formats slot_num, which is unbound when no
\* iteration has reached line 209 yet: the handler itself raises
\* UnboundLocalError, which leaves detect_occupancy.
yolo_handler_raises(kind, num) == kind = "error" /\ ~num.bound

---------------------------------------------------------------------------
\* ParkingLotTracker.detect_occupancy: the body of one loop iteration.

\* [int(x_norm * s_width), int(y_norm * s_height)] per usable entry
tracker_pixel_coords(coordinates, s_width, s_height) ==
  LET usable == usable_coords(coordinates)
  IN  [k \in 1..Len(usable) |->
         <<RTrunc(RMul(x_norm_of(usable[k]), R(s_width))),
           RTrunc(RMul(y_norm_of(usable[k]), R(s_height)))>>]

IntMin(S) == CHOOSE m \in S : \A o \in S : m <= o

IntMax(S) == CHOOSE m \in S : \A o \in S : o <= m

\* cv2.boundingRect of a non-empty point array: x, y, w, h
boundingRect(pts) ==
  LET xs == {pts[k][1] : k \in 1..Len(pts)}
      ys == {pts[k][2] : k \in 1..Len(pts)}
  IN  [x |-> IntMin(xs), y |-> IntMin(ys),
       w |-> IntMax(xs) - IntMin(xs) + 1, h |-> IntMax(ys) - IntMin(ys) + 1]

\* Length of a[start:stop] for an axis of length len (Python slicing: a
\* negative index counts from the end, indices are clamped to the axis).
PySliceIndex(k, len) ==
  IF k < 0 THEN (IF k + len < 0 THEN 0 ELSE k + len)
  ELSE (IF k > len THEN len ELSE k)

PySliceLen(start, stop, len) ==
  LET a == PySliceIndex(start, len)
      b == PySliceIndex(stop, len)
  IN  IF b > a THEN b - a ELSE 0

\* Lines 106-109: the rectangle after `if y+h > rows: h = rows - y` and
\* `if x+w > cols: w = cols - x`, and the shape of imgPro[y:y+h, x:x+w].
clip_rect(r, iw, ih) ==
  LET h == IF r.y + r.h > ih THEN ih - r.y ELSE r.h
      w == IF r.x + r.w > iw THEN iw - r.x ELSE r.w
  IN  [x |-> r.x, y |-> r.y, w |-> w, h |-> h,
       rows |-> PySliceLen(r.y, r.y + h, ih),
       cols |-> PySliceLen(r.x, r.x + w, iw)]

\* Up to the crop: "no_coordinates" (the `continue` of line 77), "error"
\* (AttributeError of slot.get, IndexError of an entry, or cv2.boundingRect
\* of an empty array) or "crop".
tracker_prepare(slot, iw, ih) ==
  IF slot_get_raises(slot) THEN [kind |-> "error", pixel_coords |-> <<>>]
  ELSE
  LET coordinates == slot_coordinates(slot)
      s_width     == s_width_of(slot, iw)
      s_height    == s_height_of(slot, ih)
  IN  IF Len(coordinates) = 0 THEN [kind |-> "no_coordinates", pixel_coords |-> <<>>]
      ELSE IF some_coord_raises(coordinates)
      THEN [kind |-> "error",
            pixel_coords |-> <<tracker_pixel_coords(coords_before_raise(coordinates),
                                                    s_width, s_height)>>]
      ELSE LET pts == tracker_pixel_coords(coordinates, s_width, s_height)
           IN  IF Len(pts) = 0 THEN [kind |-> "error", pixel_coords |-> <<pts>>]
               ELSE [kind |-> "crop", pixel_coords |-> <<pts>>,
                     rect |-> clip_rect(boundingRect(pts), iw, ih)]

\* Lines 118-119: area = w * h, 1 when that is 0.
crop_area(rect) == IF rect.w * rect.h = 0 THEN 1 ELSE rect.w * rect.h

\* Lines 122-133
tracker_is_occupied(count, area, threshold_pixel) ==
  IF RLt(ROne, threshold_pixel)
  THEN RLe(threshold_pixel, R(count))
  ELSE RLt(threshold_pixel, Frac(count, area))

\* Lines 135-147
tracker_result(slot, rect, count, threshold_pixel) ==
  LET area == crop_area(rect)
  IN  [slot_id           |-> slot_id_of(slot),
       slot_number       |-> slot_num_of(slot),
       status            |-> IF tracker_is_occupied(count, area, threshold_pixel)
                             THEN "occupied" ELSE "vacant",
       occupancy_ratio   |-> Frac(count, area),
       white_pixel_count |-> count,
       total_area        |-> area,
       confidence        |-> ROne]

---------------------------------------------------------------------------
\* Calls of detect_occupancy of both strategies on bounded slot lists.

Slot(id, num, idCamel, numCamel, coords, w, h, wCamel, hCamel) ==
  [slot_id |-> id, slot_number |-> num, slotId |-> idCamel, slotNumber |-> numCamel,
   coordinates |-> coords,
   image_width |-> w, image_height |-> h, imageWidth |-> wCamel, imageHeight |-> hCamel,
   is_dict |-> TRUE]

\* The four corners of the rectangle [x0, x1] x [y0, y1] as [x, y] lists.
ListRect(x0, y0, x1, y1) ==
  <<ListCoord(<<x0, y0>>), ListCoord(<<x1, y0>>), ListCoord(<<x1, y1>>), ListCoord(<<x0, y1>>)>>

\* The same corners as {"x": .., "y": ..} dicts.
DictRect(x0, y0, x1, y1) ==
  <<DictCoord(<<x0>>, <<y0>>), DictCoord(<<x1>>, <<y0>>),
    DictCoord(<<x1>>, <<y1>>), DictCoord(<<x0>>, <<y1>>)>>

\* The slot of Scenarios A-C: the square [0,10] x [0,10] recorded against a
\* 10 x 10 reference image.
ScenarioSlot ==
  Slot(<<1>>, <<1>>, <<>>, <<>>, <<ListRect(R(0), R(0), R(1), R(1))>>,
       <<10>>, <<10>>, <<>>, <<>>)

\* A slot without coordinates.
BareSlot == Slot(<<2>>, <<2>>, <<>>, <<>>, <<>>, <<>>, <<>>, <<>>, <<>>)

\* Keyed pairs, camelCase identity, no recorded dimensions: the frame's are used.
DictSlot ==
  Slot(<<>>, <<>>, <<3>>, <<3>>, <<DictRect(Frac(1, 2), Frac(1, 2), Frac(3, 4), Frac(3, 4))>>,
       <<>>, <<>>, <<>>, <<>>)

\* Recorded against an 80 x 80 image: in a smaller frame the polygon lies
\* entirely beyond the right edge.
BeyondRightSlot ==
  Slot(<<4>>, <<4>>, <<>>, <<>>, <<ListRect(Frac(5, 8), Frac(1, 8), Frac(3, 4), Frac(1, 4))>>,
       <<>>, <<>>, <<80>>, <<80>>)

\* Points left of the frame origin.
LeftOfOriginSlot ==
  Slot(<<5>>, <<5>>, <<>>, <<>>, <<ListRect(Frac(-2, 3), Frac(1, 3), Frac(-1, 3), Frac(2, 3))>>,
       <<>>, <<>>, <<>>, <<>>)

\* An entry of wrong arity among well-formed ones.
ShortEntrySlot ==
  Slot(<<6>>, <<6>>, <<>>, <<>>,
       <<<<ListCoord(<<Frac(1, 4), Frac(1, 4)>>), ListCoord(<<Frac(1, 2)>>),
           ListCoord(<<Frac(1, 2), Frac(1, 2)>>), ListCoord(<<Frac(1, 4), Frac(1, 2)>>)>>>>,
       <<>>, <<>>, <<>>, <<>>)

SlotPool ==
  {ScenarioSlot, BareSlot, DictSlot, BeyondRightSlot, LeftOfOriginSlot, ShortEntrySlot}

SlotLists == SeqsUpTo(SlotPool, MaxSlots)

\* What image_path holds: a decodable frame of 40 x 40 pixels, no file, or
\* a file cv2.imread cannot decode; and whether self.model.predict returns
\* or raises on the frame.
Images ==
  {[status |-> "ok", width |-> 40, height |-> 40, predict |-> "ok"],
   [status |-> "ok", width |-> 40, height |-> 40, predict |-> "raises"],
   [status |-> "missing", width |-> 0, height |-> 0, predict |-> "ok"],
   [status |-> "undecodable", width |-> 0, height |-> 0, predict |-> "ok"]}

\* Every path is taken to hold a decodable frame.
image_always_loads(img) == TRUE

\* os.path.exists(image_path) holds and cv2.imread returns an array.
image_loads(img) == img.status = "ok"

\* detect_vehicles returns: the image loads and self.model.predict returns.
detect_vehicles_returns(img) == image_loads(img) /\ img.predict = "ok"

DetectThresholds == {RZero, Frac(1, 10), Frac(30, 100)}

\* threshold_val: a ratio, the boundary 1.0, a small pixel count and the
\* default 900.
TrackerThresholds == {Frac(1, 2), ROne, R(2), R(900)}

\* Foreground pixel counts cv2.countNonZero can report for a crop of
\* `pixels` pixels.
CountChoices(pixels) == {c \in 0..MaxCount : c <= pixels} \cup {pixels}

\* results.append(result)
\* The result is put at the front of the list.
results_prepend(rs, r) == <<r>> \o rs

results_append(rs, r) == Append(rs, r)

InitDetect ==
  /\ pc = "detect_call"
  /\ strategy \in {"yolo", "tracker"}
  /\ occupied_threshold \in IF strategy = "yolo" THEN DetectThresholds ELSE {RZero}
  /\ threshold_val \in IF strategy = "tracker" THEN TrackerThresholds ELSE {RZero}
  /\ image \in Images
  /\ slots \in SlotLists
  /\ vehicles = <<>>
  /\ img_width = 0
  /\ img_height = 0
  /\ i = 0
  /\ results = <<>>
  /\ origin = <<>>
  /\ crop = <<>>
  /\ outcome = "none"
  /\ slot_num = Unbound
  /\ last_pixel_coords = <<>>
  /\ IdleIoU
  /\ IdleCheck0
  /\ IdleRun
  /\ IdleDraw

\* The binding of slot_num after an iteration on slot: lines 209 / 69 are
\* reached exactly when slot.get does not raise.
bind_slot_num(slot, num) ==
  IF slot_get_raises(slot) THEN num ELSE [bound |-> TRUE, v |-> slot_num_of(slot)]

\* detect_vehicles raises FileNotFoundError / ValueError or lets the error of
\* self.model.predict through, or cv2.imread of the tracker returns None and
\* ValueError is raised: the call ends there.
DetectRaises ==
  /\ pc = "detect_call"
  /\ IF strategy = "yolo" THEN ~detect_vehicles_returns(image) ELSE ~image_loads(image)
  /\ pc' = "detect_raised"
  /\ UNCHANGED <<runVars, drawVars, iouVars, checkVars, occupied_threshold, detectVars>>

\* Lines 190-202 of yolo_detector.py
YoloBegin ==
  /\ pc = "detect_call"
  /\ strategy = "yolo"
  /\ detect_vehicles_returns(image)
  /\ \E vs \in VehicleLists : vehicles' = vs
  /\ img_width' = image.width
  /\ img_height' = image.height
  /\ results' = <<>>
  /\ origin' = <<>>
  /\ i' = 1
  /\ pc' = "detect_loop"
  /\ UNCHANGED <<runVars, drawVars, iouVars, checkVars, occupied_threshold, strategy,
                 threshold_val, image, slots, crop, outcome, slot_num, last_pixel_coords>>

\* Lines 38-62 of parking_lot_tracker.py
TrackerBegin ==
  /\ pc = "detect_call"
  /\ strategy = "tracker"
  /\ image_loads(image)
  /\ img_width' = image.width
  /\ img_height' = image.height
  /\ results' = <<>>
  /\ origin' = <<>>
  /\ i' = 1
  /\ pc' = "detect_loop"
  /\ UNCHANGED <<runVars, drawVars, iouVars, checkVars, occupied_threshold, strategy,
                 threshold_val, image, slots, vehicles, crop, outcome, slot_num,
                 last_pixel_coords>>

\* One iteration of `for slot in slots` of YOLODetector.detect_occupancy
YoloSlot ==
  /\ pc = "detect_loop"
  /\ strategy = "yolo"
  /\ i <= Len(slots)
  /\ LET o == yolo_slot(slots[i], vehicles, occupied_threshold, img_width, img_height)
         num == bind_slot_num(slots[i], slot_num)
     IN  /\ outcome' = o.kind
         /\ slot_num' = num
         /\ last_pixel_coords' =
              IF o.pixel_coords = <<>> THEN last_pixel_coords ELSE o.pixel_coords[1]
         /\ IF o.kind = "result"
            THEN /\ results' = results_append(results, o.result)
                 /\ origin' = results_append(origin, i)
            ELSE UNCHANGED <<results, origin>>
         /\ pc' = IF yolo_handler_raises(o.kind, num) THEN "detect_aborted" ELSE pc
  /\ i' = i + 1
  /\ UNCHANGED <<runVars, drawVars, iouVars, checkVars, occupied_threshold, strategy,
                 threshold_val, image, slots, vehicles, img_width, img_height, crop>>

\* One iteration of `for slot in slots` of ParkingLotTracker.detect_occupancy.
\* count is what cv2.countNonZero reports for the masked crop: any number up
\* to the pixels of the crop, as the frame decides.  On a crop without
\* pixels cv2.fillPoly draws nothing, cv2.bitwise_and yields an empty array
\* and cv2.countNonZero reports 0; none of them raises.
TrackerSlot ==
  /\ pc = "detect_loop"
  /\ strategy = "tracker"
  /\ i <= Len(slots)
  /\ LET pre == tracker_prepare(slots[i], img_width, img_height)
     IN  /\ slot_num' = bind_slot_num(slots[i], slot_num)
         /\ last_pixel_coords' =
              IF pre.pixel_coords = <<>> THEN last_pixel_coords ELSE pre.pixel_coords[1]
         /\ IF pre.kind # "crop"
            THEN /\ outcome' = pre.kind
                 /\ crop' = <<>>
                 /\ UNCHANGED <<results, origin>>
            ELSE /\ crop' = <<pre.rect>>
                 /\ outcome' = "result"
                 /\ \E count \in CountChoices(pre.rect.rows * pre.rect.cols) :
                      results' = results_append(results,
                                   tracker_result(slots[i], pre.rect, count, threshold_val))
                 /\ origin' = results_append(origin, i)
  /\ i' = i + 1
  /\ UNCHANGED <<pc, runVars, drawVars, iouVars, checkVars, occupied_threshold, strategy,
                 threshold_val, image, slots, vehicles, img_width, img_height>>

\* The slot list is emptied on the way out.
DetectReturn_clears_slots ==
  /\ pc = "detect_loop"
  /\ i > Len(slots)
  /\ pc' = "detect_done"
  /\ slots' = <<>>
  /\ UNCHANGED <<runVars, drawVars, iouVars, checkVars, occupied_threshold, strategy,
                 threshold_val, image, vehicles, img_width, img_height, i, results,
                 origin, crop, outcome, slot_num, last_pixel_coords>>

\* `return results`
DetectReturn ==
  /\ pc = "detect_loop"
  /\ i > Len(slots)
  /\ pc' = "detect_done"
  /\ UNCHANGED <<runVars, drawVars, iouVars, checkVars, occupied_threshold, detectVars>>

Next == DetectRaises \/ YoloBegin \/ TrackerBegin \/ YoloSlot \/ TrackerSlot \/ DetectReturn

Spec == InitDetect /\ [][Next]_vars

---------------------------------------------------------------------------
\* Calls of detect_occupancy on slot lists that hold malformed records.

\* Two points only.
TwoPointSlot ==
  Slot(<<7>>, <<7>>, <<>>, <<>>,
       <<<<ListCoord(<<Frac(1, 4), Frac(1, 4)>>), ListCoord(<<Frac(1, 2), Frac(1, 2)>>)>>>>,
       <<>>, <<>>, <<>>, <<>>)

\* Three points on one horizontal line: a bounding box of height 0.
FlatSlot ==
  Slot(<<8>>, <<8>>, <<>>, <<>>,
       <<<<ListCoord(<<Frac(1, 3), Frac(1, 3)>>), ListCoord(<<Frac(1, 2), Frac(1, 3)>>),
           ListCoord(<<Frac(2, 3), Frac(1, 3)>>)>>>>,
       <<>>, <<>>, <<>>, <<>>)

\* A record that is not a mapping (None, a list, a string).
NonMappingSlot ==
  [Slot(<<>>, <<>>, <<>>, <<>>, <<>>, <<>>, <<>>, <<>>, <<>>) EXCEPT !.is_dict = FALSE]

\* A keyed pair without "x" among complete ones.
MissingKeySlot ==
  Slot(<<9>>, <<9>>, <<>>, <<>>,
       <<<<DictCoord(<<Frac(1, 4)>>, <<Frac(1, 4)>>), DictCoord(<<>>, <<Frac(1, 4)>>),
           DictCoord(<<Frac(1, 2)>>, <<Frac(1, 2)>>), DictCoord(<<Frac(1, 4)>>, <<Frac(1, 2)>>)>>>>,
       <<>>, <<>>, <<>>, <<>>)

\* An entry of unknown shape among four pairs.
UnknownEntrySlot ==
  Slot(<<10>>, <<10>>, <<>>, <<>>,
       <<<<ListCoord(<<Frac(1, 4), Frac(1, 4)>>), ListCoord(<<Frac(1, 2), Frac(1, 4)>>),
           OtherCoord,
           ListCoord(<<Frac(1, 2), Frac(1, 2)>>), ListCoord(<<Frac(1, 4), Frac(1, 2)>>)>>>>,
       <<>>, <<>>, <<>>, <<>>)

\* image_width and image_height recorded as 0.
ZeroDimsSlot ==
  Slot(<<12>>, <<12>>, <<>>, <<>>, <<ListRect(Frac(1, 4), Frac(1, 4), Frac(1, 2), Frac(1, 2))>>,
       <<0>>, <<0>>, <<>>, <<>>)

MalformedPool ==
  {ScenarioSlot, TwoPointSlot, FlatSlot, NonMappingSlot, MissingKeySlot, UnknownEntrySlot,
   ZeroDimsSlot, ShortEntrySlot}

\* Slot lists without a record occurring twice.
MalformedLists ==
  {l \in SeqsUpTo(MalformedPool, MaxSlots) :
     \A a \in 1..Len(l) : \A b \in 1..Len(l) : a # b => l[a] # l[b]}

InitMalformed ==
  /\ pc = "detect_call"
  /\ strategy \in {"yolo", "tracker"}
  /\ occupied_threshold = IF strategy = "yolo" THEN Frac(30, 100) ELSE RZero
  /\ threshold_val = IF strategy = "tracker" THEN Frac(1, 2) ELSE RZero
  /\ image \in Images
  /\ slots \in MalformedLists
  /\ vehicles = <<>>
  /\ img_width = 0
  /\ img_height = 0
  /\ i = 0
  /\ results = <<>>
  /\ origin = <<>>
  /\ crop = <<>>
  /\ outcome = "none"
  /\ slot_num = Unbound
  /\ last_pixel_coords = <<>>
  /\ IdleIoU
  /\ IdleCheck0
  /\ IdleRun
  /\ IdleDraw

SpecMalformed == InitMalformed /\ [][Next]_vars

---------------------------------------------------------------------------
\* Calls of detect_occupancy on slots whose identity fields hold 0.

\* slot_id 0 and slot_number 0, no camelCase keys.
ZeroIdSlot ==
  Slot(<<0>>, <<0>>, <<>>, <<>>, <<ListRect(Frac(1, 4), Frac(1, 4), Frac(1, 2), Frac(1, 2))>>,
       <<>>, <<>>, <<>>, <<>>)

\* slotId 0 and slotNumber 0 under the camelCase keys only.
ZeroCamelSlot ==
  Slot(<<>>, <<>>, <<0>>, <<0>>, <<ListRect(Frac(1, 2), Frac(1, 2), Frac(3, 4), Frac(3, 4))>>,
       <<>>, <<>>, <<>>, <<>>)

IdentityPool == {ScenarioSlot, DictSlot, ZeroIdSlot, ZeroCamelSlot}

InitIdentity ==
  /\ pc = "detect_call"
  /\ strategy \in {"yolo", "tracker"}
  /\ occupied_threshold = IF strategy = "yolo" THEN Frac(30, 100) ELSE RZero
  /\ threshold_val = IF strategy = "tracker" THEN Frac(1, 2) ELSE RZero
  /\ image \in Images
  /\ slots \in SeqsUpTo(IdentityPool, MaxSlots)
  /\ vehicles = <<>>
  /\ img_width = 0
  /\ img_height = 0
  /\ i = 0
  /\ results = <<>>
  /\ origin = <<>>
  /\ crop = <<>>
  /\ outcome = "none"
  /\ slot_num = Unbound
  /\ last_pixel_coords = <<>>
  /\ IdleIoU
  /\ IdleCheck0
  /\ IdleRun
  /\ IdleDraw

SpecIdentity == InitIdentity /\ [][Next]_vars

---------------------------------------------------------------------------
\* Construction of YOLODetector and ParkingDetector.run.

\* load_model reports every model file as loaded.
load_model_always_true(path) == "true"

\* ParkingDetector.load_model: False when the file does not exist, the
\* error of YOLO(...) when it cannot be loaded, else True.
load_model(path) ==
  IF path = "missing" THEN "false"
  ELSE IF path = "unloadable" THEN "raises"
  ELSE "true"

\* YOLODetector._load_model raises FileNotFoundError or RuntimeError.
yolo_load_model_raises(path) == path # "ok"

\* ParkingDetector.load_slots: False when the file does not exist.
load_slots(file) == file # <<>>

\* ParkingDetector.open_video: the file exists and the capture opens.
open_video(v) == v = "ok"

\* The occupied count is added to the count of the frame before.
run_occupied_slots_accumulated(prev, slot_list, boxes) ==
  prev + Cardinality({k \in 1..Len(slot_list) :
                        parking_check_slot_occupancy(slot_list[k], boxes)})

\* Lines 437-441: self.occupied_slots = 0, then += 1 per occupied slot.
run_occupied_slots(prev, slot_list, boxes) ==
  0 + Cardinality({k \in 1..Len(slot_list) :
                     parking_check_slot_occupancy(slot_list[k], boxes)})

\* draw_statistics, line 380
stat_free_slots(total, occupied) == total - occupied

\* draw_statistics, line 381: a percentage, 0 when there is no slot
stat_occupancy_rate(total, occupied) ==
  IF total > 0 THEN Frac(occupied * 100, total) ELSE RZero

\* Polygons a slots file holds, in pixels of the original video.
RunPolygons == {ScenarioPolygon, <<Pt(20, 20), Pt(30, 20), Pt(30, 30), Pt(20, 30)>>}

ModelFiles == {"ok", "missing", "unloadable"}

SlotsFiles == {<<>>} \cup {<<l>> : l \in SeqsUpTo(RunPolygons, MaxSlots)}

Videos == {"ok", "missing", "unopenable"}

InitRun ==
  /\ cls \in {"YOLODetector", "ParkingDetector"}
  /\ pc = IF cls = "YOLODetector" THEN "init_call" ELSE "run_call"
  /\ model_path \in ModelFiles
  /\ slots_file \in IF cls = "ParkingDetector" THEN SlotsFiles ELSE {<<>>}
  /\ video \in IF cls = "ParkingDetector" THEN Videos ELSE {"none"}
  /\ self_slots = <<>>
  /\ frame_count = 0
  /\ total_slots = 0
  /\ occupied_slots = 0
  /\ frame_boxes = <<>>
  /\ free_slots = 0
  /\ occupancy_rate = RZero
  /\ reads = 0
  /\ occupied_threshold = OCCUPIED_THRESHOLD
  /\ slot_polygon = <<>>
  /\ vehicle_boxes = <<>>
  /\ check_ret = NoRet
  /\ IdleIoU
  /\ IdleDetect
  /\ IdleDraw

\* YOLODetector.__init__: the fields are set and _load_model is called.
YoloConstruct ==
  /\ pc = "init_call"
  /\ cls = "YOLODetector"
  /\ pc' = IF yolo_load_model_raises(model_path) THEN "init_raised" ELSE "constructed"
  /\ UNCHANGED <<iouVars, checkVars, occupied_threshold, detectVars, runVars, drawVars>>

\* A method of the constructed detector hands a frame to self.model.
YoloPredict ==
  /\ pc = "constructed"
  /\ reads < MaxFrames
  /\ reads' = reads + 1
  /\ UNCHANGED <<pc, iouVars, checkVars, occupied_threshold, detectVars, drawVars,
                 model_path, slots_file, video, self_slots, frame_count, total_slots,
                 occupied_slots, frame_boxes, free_slots, occupancy_rate>>

\* ParkingDetector.run, line 400: load_model, load_slots and open_video are
\* called in this order until one of them returns False.
RunSetup ==
  /\ pc = "run_call"
  /\ cls = "ParkingDetector"
  /\ LET loaded == load_model(model_path)
         slotted == loaded = "true" /\ load_slots(slots_file)
     IN  /\ pc' = IF loaded = "raises" THEN "run_raised"
                  ELSE IF loaded = "true" /\ slotted /\ open_video(video) THEN "run_loop"
                  ELSE "run_returned"
         /\ self_slots' = IF slotted THEN slots_file[1] ELSE self_slots
         /\ total_slots' = IF slotted THEN Len(slots_file[1]) ELSE total_slots
  /\ UNCHANGED <<iouVars, checkVars, occupied_threshold, detectVars, drawVars,
                 model_path, slots_file, video, frame_count, occupied_slots,
                 frame_boxes, free_slots, occupancy_rate, reads>>

\* One pass of the `while True` loop that gets a frame (after rewinding the
\* capture when it ran out): lines 413-469.
RunFrame ==
  /\ pc = "run_loop"
  /\ frame_count < MaxFrames
  /\ frame_count' = frame_count + 1
  /\ reads' = reads + 1
  /\ \E vs \in VehicleLists :
       LET boxes    == [k \in 1..Len(vs) |-> vs[k].bbox]
           occupied == run_occupied_slots(occupied_slots, self_slots, boxes)
       IN  /\ frame_boxes' = boxes
           /\ occupied_slots' = occupied
           /\ free_slots' = stat_free_slots(total_slots, occupied)
           /\ occupancy_rate' = stat_occupancy_rate(total_slots, occupied)
  /\ \E esc \in BOOLEAN : pc' = IF esc THEN "run_done" ELSE "run_loop"
  /\ UNCHANGED <<iouVars, checkVars, occupied_threshold, detectVars, drawVars,
                 model_path, slots_file, video, self_slots, total_slots>>

NextRun == YoloConstruct \/ YoloPredict \/ RunSetup \/ RunFrame

SpecRun == InitRun /\ [][NextRun]_vars

---------------------------------------------------------------------------
\* SlotDrawer: the mouse callback and the keys of the drawing loop.

\* (int(x / self.scale_factor), int(y / self.scale_factor))
orig_point(x, y, scale) == <<RTrunc(RDiv(R(x), scale)), RTrunc(RDiv(R(y), scale))>>

\* The fourth point completes the slot but stays pending.
left_click_keeps_points(pts, slot_list, pt) ==
  LET appended == Append(pts, pt)
  IN  IF Len(appended) = 4
      THEN [points |-> appended, slots |-> Append(slot_list, appended)]
      ELSE [points |-> appended, slots |-> slot_list]

\* Lines 100-111: EVENT_LBUTTONDOWN
left_click(pts, slot_list, pt) ==
  LET appended == Append(pts, pt)
  IN  IF Len(appended) = 4
      THEN [points |-> <<>>, slots |-> Append(slot_list, appended)]
      ELSE [points |-> appended, slots |-> slot_list]

\* Only pending points are ever removed.
right_click_points_only(pts, slot_list) ==
  IF Len(pts) > 0
  THEN [points |-> SubSeq(pts, 1, Len(pts) - 1), slots |-> slot_list]
  ELSE [points |-> pts, slots |-> slot_list]

\* Lines 113-120: EVENT_RBUTTONDOWN
right_click(pts, slot_list) ==
  IF Len(pts) > 0
  THEN [points |-> SubSeq(pts, 1, Len(pts) - 1), slots |-> slot_list]
  ELSE IF Len(slot_list) > 0
  THEN [points |-> pts, slots |-> SubSeq(slot_list, 1, Len(slot_list) - 1)]
  ELSE [points |-> pts, slots |-> slot_list]

\* Display coordinates the mouse is clicked at.
ClickCoords == {0, 2}

\* Scale factors calculate_display_size returned for the video.
DrawerScales == {Frac(3, 2)}

\* The last two entries of a history after e is added.
Remember(history, e) ==
  IF Len(history) < 2 THEN Append(history, e) ELSE <<history[2], e>>

Snapshot == [points |-> points, slots |-> drawn_slots]

InitDrawer ==
  /\ pc = "draw_loop"
  /\ points = <<>>
  /\ drawn_slots = <<>>
  /\ scale_factor \in DrawerScales
  /\ events = <<>>
  /\ snapshots = <<>>
  /\ IdleIoU
  /\ IdleCheck
  /\ IdleDetect
  /\ IdleRun

\* mouse_callback with EVENT_LBUTTONDOWN at (x, y)
LeftClick ==
  /\ pc = "draw_loop"
  /\ Len(drawn_slots) < MaxDrawn \/ Len(points) < 3
  /\ \E x \in ClickCoords : \E y \in {x} :
       LET after == left_click(points, drawn_slots, orig_point(x, y, scale_factor))
       IN  /\ points' = after.points
           /\ drawn_slots' = after.slots
  /\ events' = Remember(events, "left")
  /\ snapshots' = Remember(snapshots, Snapshot)
  /\ UNCHANGED <<pc, iouVars, checkVars, occupied_threshold, detectVars, runVars,
                 scale_factor>>

\* mouse_callback with EVENT_RBUTTONDOWN
RightClick ==
  /\ pc = "draw_loop"
  /\ LET after == right_click(points, drawn_slots)
     IN  /\ points' = after.points
         /\ drawn_slots' = after.slots
  /\ events' = Remember(events, "right")
  /\ snapshots' = Remember(snapshots, Snapshot)
  /\ UNCHANGED <<pc, iouVars, checkVars, occupied_threshold, detectVars, runVars,
                 scale_factor>>

\* Lines 209-212: key 'r' or 'R'
KeyReset ==
  /\ pc = "draw_loop"
  /\ drawn_slots' = <<>>
  /\ points' = <<>>
  /\ events' = Remember(events, "reset")
  /\ snapshots' = Remember(snapshots, Snapshot)
  /\ UNCHANGED <<pc, iouVars, checkVars, occupied_threshold, detectVars, runVars,
                 scale_factor>>

\* Lines 202-207: key 's' or 'S' saves and leaves the loop when there is a
\* slot, and only prints a warning when there is none.
KeySave ==
  /\ pc = "draw_loop"
  /\ pc' = IF Len(drawn_slots) > 0 THEN "draw_saved" ELSE pc
  /\ events' = Remember(events, "save")
  /\ snapshots' = Remember(snapshots, Snapshot)
  /\ UNCHANGED <<iouVars, checkVars, occupied_threshold, detectVars, runVars,
                 points, drawn_slots, scale_factor>>

\* Lines 214-216: key 'q' or 'Q'
KeyQuit ==
  /\ pc = "draw_loop"
  /\ pc' = "draw_quit"
  /\ events' = Remember(events, "quit")
  /\ snapshots' = Remember(snapshots, Snapshot)
  /\ UNCHANGED <<iouVars, checkVars, occupied_threshold, detectVars, runVars,
                 points, drawn_slots, scale_factor>>

NextDrawer == LeftClick \/ RightClick \/ KeyReset \/ KeySave \/ KeyQuit

SpecDrawer == InitDrawer /\ [][NextDrawer]_vars

---------------------------------------------------------------------------
\* Geometry the calculate_iou claims are stated against: a box of integer
\* corners is the set of unit cells it covers.

ValidBox(b) == b[1] <= b[3] /\ b[2] <= b[4]

Cells(b) == (b[1]..(b[3] - 1)) \X (b[2]..(b[4] - 1))

CellArea(b) == Cardinality(Cells(b))

OverlapArea(a, b) == Cardinality(Cells(a) \cap Cells(b))

IouReturned == pc = "iou_done"

\* C1: for boxes with x_min <= x_max and y_min <= y_max calculate_iou returns
\* intersection / union, where intersection is the area of the overlap
\* rectangle (0 without overlap) and union is area(box1) + area(box2) -
\* intersection, and returns 0.0 when the union is 0; boxes [0,0,10,10] and
\* [5,5,15,15] give 25 / 175.
IouIsIntersectionOverUnion ==
  IouReturned /\ ValidBox(box1) /\ ValidBox(box2) =>
    LET inter == OverlapArea(box1, box2)
        union == CellArea(box1) + CellArea(box2) - inter
    IN  /\ union = 0 => REq(iou_ret[1], RZero)
        /\ union # 0 => REq(iou_ret[1], Frac(inter, union))
        /\ (box1 = <<0, 0, 10, 10>> /\ box2 = <<5, 5, 15, 15>>) =>
             inter = 25 /\ union = 175 /\ REq(iou_ret[1], Frac(25, 175))

\* C1 witness: the call of Scenario C has returned 25 / 175.
IouScenarioCReturned ==
  /\ IouReturned
  /\ box1 = <<0, 0, 10, 10>>
  /\ box2 = <<5, 5, 15, 15>>
  /\ REq(iou_ret[1], Frac(25, 175))

\* C2: IoU is symmetric: calculate_iou(a, b) = calculate_iou(b, a) for all
\* box pairs.
IouSymmetric ==
  IouReturned => REq(iou_ret[1], calculate_iou(RBox(box2), RBox(box1)))

\* C2 witness: two different overlapping boxes with a positive IoU.
IouOverlapReturned ==
  /\ IouReturned
  /\ box1 = <<0, 0, 2, 2>>
  /\ box2 = <<1, 0, 2, 1>>
  /\ RLt(RZero, iou_ret[1])

NonOverlapping(a, b) == Cells(a) \cap Cells(b) = {}

PositiveArea(b) == b[1] < b[3] /\ b[2] < b[4]

\* C3 as stated: calculate_iou returns 0 for any pair of non-overlapping
\* boxes and 1.0 for any two identical boxes.
IouZeroDisjointOneIdentical ==
  IouReturned =>
    /\ NonOverlapping(box1, box2) => REq(iou_ret[1], RZero)
    /\ box1 = box2 => REq(iou_ret[1], ROne)

\* C3 as amended: calculate_iou returns 0 for any pair of non-overlapping
\* boxes, 1.0 for two identical boxes of positive area (x_min < x_max and
\* y_min < y_max), and 0.0 for two identical boxes of zero area or with a
\* min edge beyond the max edge.
IouZeroDisjointOneIdenticalPositive ==
  IouReturned =>
    /\ NonOverlapping(box1, box2) => REq(iou_ret[1], RZero)
    /\ (box1 = box2 /\ PositiveArea(box1)) => REq(iou_ret[1], ROne)
    /\ (box1 = box2 /\ ~PositiveArea(box1)) => REq(iou_ret[1], RZero)

\* C3 witness: a box of positive area compared with itself gave 1.0.
IouIdenticalReturnedOne ==
  /\ IouReturned
  /\ box1 = box2
  /\ PositiveArea(box1)
  /\ REq(iou_ret[1], ROne)

\* C4: for every pair of input boxes, boxes of zero area and boxes whose min
\* edge exceeds their max edge included, the returned value lies in [0, 1].
IouInUnitInterval ==
  IouReturned => RLe(RZero, iou_ret[1]) /\ RLe(iou_ret[1], ROne)

\* C4 witness: a call on an inverted box and a box of zero area has returned.
IouDegenerateReturned ==
  /\ IouReturned
  /\ box1 = <<2, 2, 0, 0>>
  /\ box2 = <<1, 1, 1, 1>>

---------------------------------------------------------------------------
\* Geometry the check_slot_occupancy claims are stated against.

CheckReturned == pc = "check_done"

LeastOf(S) == CHOOSE m \in S : \A o \in S : RLe(m, o)

GreatestOf(S) == CHOOSE m \in S : \A o \in S : RLe(o, m)

\* The axis-aligned bounding box: min / max over all polygon points.
BoundingBoxOf(polygon) ==
  LET xs == {polygon[k][1] : k \in 1..Len(polygon)}
      ys == {polygon[k][2] : k \in 1..Len(polygon)}
  IN  <<LeastOf(xs), LeastOf(ys), GreatestOf(xs), GreatestOf(ys)>>

\* The maximum IoU between a box and all vehicle boxes; 0.0, the value
\* reported as the signal, when there is no vehicle.
MaxIouOver(bbox, vs) ==
  GreatestOf({RZero} \cup {calculate_iou(bbox, RBox(vs[k].bbox)) : k \in 1..Len(vs)})

\* Two boxes share a region of positive area.
BoxesOverlap(a, b) ==
  /\ RLt(a[1], b[3]) /\ RLt(b[1], a[3])
  /\ RLt(a[2], b[4]) /\ RLt(b[2], a[4])

NoVehicleOverlaps(bbox, vs) ==
  \A k \in 1..Len(vs) : ~BoxesOverlap(bbox, RBox(vs[k].bbox))

\* C5: a slot is reported occupied iff the maximum IoU between the slot's
\* axis-aligned bounding box and all detected vehicle boxes is >= the
\* occupancy threshold (0.30 by default, the constant of ParkingDetector);
\* the Scenario C slot and vehicle are vacant at 0.30 and occupied at 0.10.
CheckOccupiedIffMaxIouReachesThreshold ==
  CheckReturned =>
    LET bbox      == BoundingBoxOf(slot_polygon)
        max       == MaxIouOver(bbox, vehicle_boxes)
        threshold == IF cls = "YOLODetector" THEN occupied_threshold ELSE Frac(30, 100)
        scenarioC == /\ slot_polygon = ScenarioPolygon
                     /\ Len(vehicle_boxes) = 1
                     /\ vehicle_boxes[1].bbox = <<5, 5, 15, 15>>
    IN  /\ check_ret[1].is_occupied <=> RLe(threshold, max)
        /\ (scenarioC /\ REq(threshold, Frac(30, 100))) => ~check_ret[1].is_occupied
        /\ (scenarioC /\ REq(threshold, Frac(10, 100))) => check_ret[1].is_occupied

\* C5 witness: Scenario C at threshold 0.10 was found occupied.
CheckScenarioCOccupied ==
  /\ CheckReturned
  /\ cls = "YOLODetector"
  /\ slot_polygon = ScenarioPolygon
  /\ Len(vehicle_boxes) = 1
  /\ vehicle_boxes[1].bbox = <<5, 5, 15, 15>>
  /\ REq(occupied_threshold, Frac(10, 100))
  /\ check_ret[1].is_occupied

\* C6: for the detection strategy a slot whose bounding box overlaps no
\* detected vehicle box (the empty vehicle list included) is always reported
\* vacant, for every occupied_threshold the detector can be constructed with.
CheckNoOverlapIsVacant ==
  (CheckReturned /\ cls = "YOLODetector"
     /\ NoVehicleOverlaps(BoundingBoxOf(slot_polygon), vehicle_boxes))
  => ~check_ret[1].is_occupied

---------------------------------------------------------------------------
\* Claims about detect_occupancy.

DetectReturned == pc = "detect_done"

InLoopOrReturned == pc \in {"detect_loop", "detect_done"}

\* The pixel-space bounding box of a slot as the detection strategy sees it.
YoloSlotBox(slot) ==
  BoundingBoxOf(yolo_pixel_coords(slot_coordinates(slot),
                                  s_width_of(slot, img_width), s_height_of(slot, img_height)))

\* Some detected vehicle reaches the maximum IoU with the box and has this
\* bounding box and confidence.
IsBestVehicle(box, meta) ==
  \E k \in 1..Len(vehicles) :
    /\ vehicles[k].bbox = meta.bounding_box
    /\ vehicles[k].confidence = meta.confidence
    /\ REq(calculate_iou(box, RBox(vehicles[k].bbox)), MaxIouOver(box, vehicles))

\* C7: whenever YOLODetector.detect_occupancy reports a slot occupied, the
\* result carries vehicle_metadata with the box and confidence of a vehicle
\* whose IoU with the slot's bounding box is the maximum over all detected
\* vehicles, and the attached iou equals occupancy_ratio; a vacant result
\* carries no vehicle_metadata.
OccupiedCarriesBestVehicle ==
  (strategy = "yolo" /\ InLoopOrReturned) =>
    \A k \in 1..Len(results) :
      LET r == results[k]
      IN  /\ r.status = "occupied" =>
               /\ r.vehicle_metadata # <<>>
               /\ IsBestVehicle(YoloSlotBox(slots[origin[k]]), r.vehicle_metadata[1])
               /\ REq(r.vehicle_metadata[1].iou, r.occupancy_ratio)
          /\ r.status = "vacant" => r.vehicle_metadata = <<>>

TrackerMadeResult == strategy = "tracker" /\ pc = "detect_loop" /\ outcome = "result"

\* C8: in the geometric strategy, for every slot that yields a result: with
\* threshold_val > 1.0 the status is occupied iff count >= threshold_val;
\* otherwise it is occupied iff count / area > threshold_val, where area is
\* the clipped bounding-rectangle area w * h floored to 1, so that the
\* divisor is always >= 1.
TrackerDecisionRule ==
  TrackerMadeResult =>
    LET r     == results[Len(results)]
        count == r.white_pixel_count
        wh    == crop[1].w * crop[1].h
        area  == IF wh < 1 THEN 1 ELSE wh
    IN  /\ r.total_area = area
        /\ r.total_area >= 1
        /\ RLt(ROne, threshold_val) =>
             (r.status = "occupied" <=> RLe(threshold_val, R(count)))
        /\ ~RLt(ROne, threshold_val) =>
             (r.status = "occupied" <=> RLt(threshold_val, Frac(count, area)))
        /\ r.status \in {"occupied", "vacant"}

\* C9: in the geometric strategy the crop rectangle (x, y, w, h) used after
\* clipping lies inside the frame for every slot polygon: 0 <= x, 0 <= y,
\* w >= 0, h >= 0, x + w <= frame width, y + h <= frame height; the crop
\* never wraps around and never raises an error.
CropInsideFrame ==
  (strategy = "tracker" /\ crop # <<>>) =>
    LET c == crop[1]
    IN  /\ 0 <= c.x /\ 0 <= c.y
        /\ c.w >= 0 /\ c.h >= 0
        /\ c.x + c.w <= img_width
        /\ c.y + c.h <= img_height
        /\ c.rows = c.h /\ c.cols = c.w
        /\ outcome # "error"

\* A coordinate entry that is a pair: a list of two values or a dict with
\* both "x" and "y".
WellFormedCoord(c) ==
  \/ c.t = "list" /\ Len(c.v) = 2
  \/ c.t = "dict" /\ c.x # <<>> /\ c.y # <<>>

HasNoCoordinates(slot) == Len(slot_coordinates(slot)) = 0

HasValidCoordinates(slot) ==
  LET cs == slot_coordinates(slot)
  IN  Len(cs) >= 3 /\ \A k \in 1..Len(cs) : WellFormedCoord(cs[k])

\* C10: for both strategies the returned list holds exactly one result for
\* each input slot with valid coordinates and none for a slot without
\* coordinates, in the relative order of the input slots: never duplicated
\* or reordered.
ResultsFollowSlots ==
  DetectReturned =>
    /\ Len(origin) = Len(results)
    /\ \A k \in 1..Len(origin) : origin[k] \in 1..Len(slots)
    /\ \A k \in 1..Len(origin) : \A m \in 1..Len(origin) : k < m => origin[k] < origin[m]
    /\ \A j \in 1..Len(slots) :
         /\ HasValidCoordinates(slots[j]) =>
              Cardinality({k \in 1..Len(origin) : origin[k] = j}) = 1
         /\ HasNoCoordinates(slots[j]) =>
              Cardinality({k \in 1..Len(origin) : origin[k] = j}) = 0
    /\ \A k \in 1..Len(results) :
         /\ results[k].slot_id = slot_id_of(slots[origin[k]])
         /\ results[k].slot_number = slot_num_of(slots[origin[k]])

\* A call returned for a slot without coordinates followed by a slot with
\* valid ones: only the second slot got a result.
ResultsSkipBareSlot ==
  /\ DetectReturned
  /\ Len(slots) = 2
  /\ HasNoCoordinates(slots[1])
  /\ HasValidCoordinates(slots[2])
  /\ origin = <<2>>

---------------------------------------------------------------------------
\* Claims about malformed slots and coordinate normalization.

IsMapping(slot) == slot.is_dict

WellFormedEntries(slot) == SelectSeq(slot_coordinates(slot), WellFormedCoord)

EntryX(c) == IF c.t = "list" THEN c.v[1] ELSE c.x[1]

EntryY(c) == IF c.t = "list" THEN c.v[2] ELSE c.y[1]

\* The well-formed entries as a polygon of normalized fractions.
NormalizedPolygon(slot) ==
  LET wf == WellFormedEntries(slot)
  IN  [k \in 1..Len(wf) |-> <<EntryX(wf[k]), EntryY(wf[k])>>]

ZeroAreaBox(b) == REq(b[1], b[3]) \/ REq(b[2], b[4])

\* Fewer than 3 usable points, or a bounding box of zero area.
DegenerateSlot(slot) ==
  /\ IsMapping(slot)
  /\ Len(slot_coordinates(slot)) > 0
  /\ \/ Len(WellFormedEntries(slot)) < 3
     \/ ZeroAreaBox(BoundingBoxOf(NormalizedPolygon(slot)))

\* C11: a slot with fewer than 3 usable coordinate points, or whose
\* bounding box has zero area, is excluded from the results of
\* detect_occupancy in both strategies.
DegenerateSlotsExcluded ==
  InLoopOrReturned =>
    \A k \in 1..Len(origin) : ~DegenerateSlot(slots[origin[k]])

\* C12: a malformed slot at any position, the first included, never aborts
\* detect_occupancy on a frame that loads: the call returns normally and
\* every well-formed slot before and after it still gets its result.
MalformedNeverAborts ==
  /\ pc # "detect_aborted"
  /\ DetectReturned =>
       \A j \in 1..Len(slots) :
         (IsMapping(slots[j]) /\ HasValidCoordinates(slots[j])) =>
           Cardinality({k \in 1..Len(origin) : origin[k] = j}) = 1

FrameFails ==
  \/ image.status # "ok"
  \/ strategy = "yolo" /\ image.predict = "raises"

\* C13: if the frame is missing or undecodable, or vehicle detection fails,
\* detect_occupancy ends by raising before any slot is evaluated and never
\* returns a result list.
FrameFailureRaises ==
  (strategy \in {"yolo", "tracker"} /\ FrameFails) =>
    /\ pc \in {"detect_call", "detect_raised"}
    /\ i = 0
    /\ results = <<>>
    /\ outcome = "none"

\* The detector failed on a loadable frame and the call raised with two
\* slots still unevaluated.
DetectionFailureRaised ==
  /\ pc = "detect_raised"
  /\ strategy = "yolo"
  /\ image.status = "ok"
  /\ image.predict = "raises"
  /\ Len(slots) = 2

\* C16: no step of detect_occupancy, the check_slot_occupancy calls it makes
\* included, changes the slot list, a slot record or its coordinates, the
\* detected vehicle list once it exists, or the detector's threshold fields.
InputsNeverMutated ==
  [][/\ slots' = slots
     /\ image' = image
     /\ occupied_threshold' = occupied_threshold
     /\ threshold_val' = threshold_val
     /\ pc # "detect_call" => vehicles' = vehicles]_vars

\* A call that evaluated two slots against two vehicles has returned.
InputsSurvivedCall ==
  /\ DetectReturned
  /\ strategy = "yolo"
  /\ Len(slots) = 2
  /\ Len(vehicles) = 2
  /\ Len(results) = 2

\* The slot the last iteration of the loop was made for.
LastSlot == slots[i - 1]

IterationMade == pc \in {"detect_loop", "detect_done", "detect_aborted"} /\ i > 1

AllWellFormed(slot) ==
  /\ IsMapping(slot)
  /\ Len(slot_coordinates(slot)) > 0
  /\ Len(WellFormedEntries(slot)) = Len(slot_coordinates(slot))

\* A pixel coordinate of last_pixel_coords as a rational: a float in the
\* detection strategy, an int in the geometric one.
AsRational(v) == IF strategy = "tracker" THEN R(v) ELSE v

\* The recorded reference dimension: the snake_case key, else the camelCase
\* one; <<>> when the slot records none.
Recorded(snake, camel) == IF snake # <<>> THEN snake ELSE camel

RefWidth(slot) ==
  LET rec == Recorded(slot.image_width, slot.imageWidth)
  IN  IF rec = <<>> THEN img_width ELSE rec[1]

RefHeight(slot) ==
  LET rec == Recorded(slot.image_height, slot.imageHeight)
  IN  IF rec = <<>> THEN img_height ELSE rec[1]

\* C17 as stated: every usable entry (x, y), in input order, becomes the
\* pixel point (x * ref_width, y * ref_height); ref_width and ref_height are
\* the recorded dimensions and are the frame's exactly when none is recorded.
CoordinatesMultipliedThrough ==
  (IterationMade /\ outcome = "result" /\ AllWellFormed(LastSlot)) =>
    LET poly == NormalizedPolygon(LastSlot)
    IN  /\ Len(last_pixel_coords) = Len(poly)
        /\ \A k \in 1..Len(poly) :
             /\ REq(AsRational(last_pixel_coords[k][1]),
                    RMul(poly[k][1], R(RefWidth(LastSlot))))
             /\ REq(AsRational(last_pixel_coords[k][2]),
                    RMul(poly[k][2], R(RefHeight(LastSlot))))

\* The first recorded dimension that is neither absent nor 0, else the frame's.
NonZeroRef(snake, camel, frame) ==
  IF snake # <<>> /\ snake[1] # 0 THEN snake[1]
  ELSE IF camel # <<>> /\ camel[1] # 0 THEN camel[1]
  ELSE frame

\* The pixel coordinate a product becomes: itself in the detection
\* strategy, cut to the integer toward zero in the geometric one.
PixelOf(q) == IF strategy = "tracker" THEN R(RTrunc(q)) ELSE q

\* C17: every usable entry (x, y), in input order, becomes the pixel point
\* (x * ref_width, y * ref_height), cut toward zero to integers in the
\* geometric strategy; ref_width / ref_height are the slot's recorded
\* dimensions and are the frame's when the slot records none or records 0.
CoordinatesMultipliedThroughToPixels ==
  (IterationMade /\ outcome = "result" /\ AllWellFormed(LastSlot)) =>
    LET poly == NormalizedPolygon(LastSlot)
        refw == NonZeroRef(LastSlot.image_width, LastSlot.imageWidth, img_width)
        refh == NonZeroRef(LastSlot.image_height, LastSlot.imageHeight, img_height)
    IN  /\ Len(last_pixel_coords) = Len(poly)
        /\ \A k \in 1..Len(poly) :
             /\ REq(AsRational(last_pixel_coords[k][1]), PixelOf(RMul(poly[k][1], R(refw))))
             /\ REq(AsRational(last_pixel_coords[k][2]), PixelOf(RMul(poly[k][2], R(refh))))

\* The slot recorded against a 10 x 10 image was normalized in a 40 x 40 frame.
RecordedDimensionsUsed ==
  /\ IterationMade
  /\ outcome = "result"
  /\ LastSlot = ScenarioSlot
  /\ img_width = 40
  /\ Len(last_pixel_coords) = 4

\* C18: a malformed coordinate entry (a 1-element pair, a keyed pair
\* missing "x" or "y", an entry of unknown shape) is skipped individually:
\* it contributes no pixel point and the remaining well-formed entries are
\* still normalized and used to evaluate the slot.
MalformedEntriesSkipped ==
  (IterationMade /\ IsMapping(LastSlot) /\ Len(slot_coordinates(LastSlot)) > 0) =>
    /\ Len(last_pixel_coords) = Len(WellFormedEntries(LastSlot))
    /\ Len(WellFormedEntries(LastSlot)) >= 3 => outcome = "result"

---------------------------------------------------------------------------
\* Claims about model loading and the statistics of ParkingDetector.run.

ModelFails == model_path \in {"missing", "unloadable"}

\* C14: a missing or unloadable model is reported before any frame is
\* processed: YOLODetector construction raises, so that no detector exists
\* to hand a frame to the model, and ParkingDetector.run ends without
\* reading a frame or incrementing frame_count; it returns when load_model
\* reports the failure.
ModelFailureBeforeAnyFrame ==
  ModelFails =>
    /\ reads = 0
    /\ frame_count = 0
    /\ cls = "YOLODetector" => pc \in {"init_call", "init_raised"}
    /\ cls = "ParkingDetector" => pc \in {"run_call", "run_returned", "run_raised"}
    /\ (cls = "ParkingDetector" /\ load_model(model_path) = "false" /\ pc # "run_call")
         => pc = "run_returned"

\* run has returned for a missing model although slots and video were there.
RunReturnedOnMissingModel ==
  /\ pc = "run_returned"
  /\ model_path = "missing"
  /\ slots_file # <<>>
  /\ video = "ok"

FrameProcessed == cls = "ParkingDetector" /\ frame_count >= 1

AsVehicles(boxes) == [k \in 1..Len(boxes) |-> [bbox |-> boxes[k]]]

\* The slots of the list whose maximum IoU with the boxes reaches 0.30.
OccupiedIn(slot_list, boxes) ==
  {k \in 1..Len(slot_list) :
     RLe(OCCUPIED_THRESHOLD, MaxIouOver(BoundingBoxOf(slot_list[k]), AsVehicles(boxes)))}

\* C15: after each processed frame occupied_slots is the number of slots
\* occupied in that frame only, 0 <= occupied_slots <= total_slots,
\* free = total_slots - occupied_slots, and the occupancy rate is
\* occupied / total (as a percentage), or 0 when total_slots is 0.
StatisticsPerFrame ==
  FrameProcessed =>
    /\ total_slots = Len(self_slots)
    /\ occupied_slots = Cardinality(OccupiedIn(self_slots, frame_boxes))
    /\ 0 <= occupied_slots /\ occupied_slots <= total_slots
    /\ free_slots = total_slots - occupied_slots
    /\ total_slots = 0 => REq(occupancy_rate, RZero)
    /\ total_slots > 0 =>
         REq(RDiv(occupancy_rate, R(100)), Frac(occupied_slots, total_slots))

\* The second frame found both slots occupied.
SecondFrameCounted ==
  /\ FrameProcessed
  /\ frame_count = 2
  /\ total_slots = 2
  /\ occupied_slots = 2

---------------------------------------------------------------------------
\* Claims about SlotDrawer.

LastEvent == IF Len(events) = 0 THEN "none" ELSE events[Len(events)]

\* points and slots as they were before the last event.
Before == snapshots[Len(snapshots)]

Prefix(short, long) ==
  Len(short) <= Len(long) /\ SubSeq(long, 1, Len(short)) = short

\* C19: after any sequence of left-clicks, right-clicks and resets there
\* are 0 to 3 pending points and every slot is a polygon of exactly 4
\* points; the 4th left-click moves the 4 pending points into slots as one
\* new slot and empties the pending points in the same step; 'R' empties both.
DrawerShape ==
  /\ Len(points) \in 0..3
  /\ \A k \in 1..Len(drawn_slots) : Len(drawn_slots[k]) = 4
  /\ (LastEvent = "left" /\ Len(Before.points) = 3) =>
       /\ points = <<>>
       /\ Len(drawn_slots) = Len(Before.slots) + 1
       /\ Prefix(Before.slots, drawn_slots)
       /\ Prefix(Before.points, drawn_slots[Len(drawn_slots)])
  /\ (LastEvent = "left" /\ Len(Before.points) < 3) =>
       /\ drawn_slots = Before.slots
       /\ Len(points) = Len(Before.points) + 1
       /\ Prefix(Before.points, points)
  /\ LastEvent = "reset" => (points = <<>> /\ drawn_slots = <<>>)

\* The 4th left-click completed a second slot.
SecondSlotCompleted ==
  /\ LastEvent = "left"
  /\ Len(Before.points) = 3
  /\ Len(drawn_slots) = 2

\* What a right-click does to the points and slots it finds.
RightClickRemovesLast ==
  LastEvent = "right" =>
    /\ Len(Before.points) > 0 =>
         /\ points = SubSeq(Before.points, 1, Len(Before.points) - 1)
         /\ drawn_slots = Before.slots
    /\ (Len(Before.points) = 0 /\ Len(Before.slots) > 0) =>
         /\ points = <<>>
         /\ drawn_slots = SubSeq(Before.slots, 1, Len(Before.slots) - 1)
    /\ (Len(Before.points) = 0 /\ Len(Before.slots) = 0) =>
         /\ points = <<>>
         /\ drawn_slots = <<>>

LeftThenRight == events = <<"left", "right">>

\* C20 as stated: a right-click removes the most recent pending point and
\* leaves slots unchanged, or with no pending point removes the most recent
\* slot, or with neither changes nothing; consequently a right-click
\* immediately after a left-click restores points and slots to their values
\* before that left-click.
RightClickUndoesLeftClick ==
  /\ RightClickRemovesLast
  /\ LeftThenRight =>
       (points = snapshots[1].points /\ drawn_slots = snapshots[1].slots)

\* C20: a right-click removes the most recent pending point and leaves
\* slots unchanged, or with no pending point removes the most recent slot,
\* or with neither changes nothing; a right-click immediately after a
\* left-click restores points and slots to their values before that
\* left-click unless the left-click completed a slot: then the whole slot is
\* removed, slots is as before and the three earlier pending points are gone.
RightClickUndoesPointOrSlot ==
  /\ RightClickRemovesLast
  /\ (LeftThenRight /\ Len(snapshots[1].points) < 3) =>
       (points = snapshots[1].points /\ drawn_slots = snapshots[1].slots)
  /\ (LeftThenRight /\ Len(snapshots[1].points) = 3) =>
       (points = <<>> /\ drawn_slots = snapshots[1].slots)

\* A slot completed by the 4th left-click was removed by the right-click
\* that followed.
CompletedSlotUndone ==
  /\ LeftThenRight
  /\ Len(snapshots[1].points) = 3
  /\ Len(snapshots[1].slots) = 1
  /\ Len(drawn_slots) = 1

---------------------------------------------------------------------------
\* Claims about the identity a result carries.

\* The value stored under the snake_case key, else under the camelCase one.
StoredUnder(snake, camel) == IF snake # <<>> THEN snake ELSE camel

\* C21: every result record returned by detect_occupancy (both strategies)
\* carries the identity of the slot it was computed from: its slot_id and
\* slot_number equal the input slot's slot_id / slotId and slot_number /
\* slotNumber for every value those fields can hold, including 0, and its
\* status is exactly one of occupied or vacant.
ResultCarriesSlotIdentity ==
  InLoopOrReturned =>
    \A k \in 1..Len(results) :
      LET slot == slots[origin[k]]
      IN  /\ results[k].slot_id = StoredUnder(slot.slot_id, slot.slotId)
          /\ results[k].slot_number = StoredUnder(slot.slot_number, slot.slotNumber)
          /\ results[k].status \in {"occupied", "vacant"}

====
